---- MODULE Spec2Model ----
(***************************************************************************)
(* Model of the Telegram image-classifier bot (src/main.py).               *)
(*                                                                         *)
(* main() registers the message handler, replaces the webhook and starts   *)
(* the webhook server; every accepted update that passes the handler       *)
(* filter runs one handle_image coroutine.  Coroutines interleave only at  *)
(* their await points (get_file, download_to_memory, reply_text); the code *)
(* between two awaits runs on the event loop without yielding.             *)
(***************************************************************************)
EXTENDS Integers, Sequences, FiniteSets, TLC

\* ---------------------------------------------------------------- bounds
NumUpdates == 2
MaxPending == 1
NumClasses == 3
MaxPhotoSizes == 2
MaxStartups == 2

Updates == 1..NumUpdates

\* identities of the updates the platform may hold in its queue
PendingIds == 1..MaxPending

\* ------------------------------------------------------------- constants
None == "None"

\* WEBHOOK_PATH = "/webhook"; the leading "/" is a separate token so that
\* URLs are sequences of tokens and rstrip('/') has something to strip.
WEBHOOK_PATH == <<"/", "webhook">>

\* values of the environment variable RENDER_EXTERNAL_URL
BaseUrls == { <<"https://bot.example">>, <<"https://bot.example", "/">> }

RECURSIVE RStripSlash(_)
RStripSlash(s) ==
    IF Len(s) > 0 /\ s[Len(s)] = "/"
    THEN RStripSlash(SubSeq(s, 1, Len(s) - 1))
    ELSE s

\* WEBHOOK_URL = f"{RENDER_EXTERNAL_URL.rstrip('/')}{WEBHOOK_PATH}"
WebhookUrlOf(base) == RStripSlash(base) \o WEBHOOK_PATH

StaleUrl == <<"https://old.example", "/", "webhook">>

\* delete_webhook without the drop of the queued updates
DropPendingUpdates_Keep == FALSE

\* delete_webhook(drop_pending_updates=True)
DropPendingUpdates == TRUE

\* main() with the registration of the new URL placed before the removal
\* of the old webhook
StartupOrder_SetFirst ==
    <<"add_handler", "set_webhook", "delete_webhook", "log_result", "run_webhook">>

\* the awaited statements of main(), in program order
StartupOrder ==
    <<"add_handler", "delete_webhook", "set_webhook", "log_result", "run_webhook">>

\* the statement that follows statement s of main(); after the last one the
\* webhook server is accepting pushes
StmtAfter(s) ==
    LET i == CHOOSE k \in 1..Len(StartupOrder) : StartupOrder[k] = s
    IN  IF i < Len(StartupOrder) THEN StartupOrder[i + 1] ELSE "serving"

\* ------------------------------------------------------ the loaded model
\* model.config.id2label: the fixed index-to-label table of the checkpoint
LabelVocabulary ==
    <<"tench", "goldfish", "great white shark", "tiger shark", "hammerhead">>

id2label == [i \in 0..(NumClasses - 1) |-> LabelVocabulary[i + 1]]

\* feature_extractor and model as loaded by from_pretrained at import: the
\* checkpoint, its label table, and how many times it has been loaded
LoadedModel ==
    [checkpoint |-> "google/vit-base-patch16-224", id2label |-> id2label,
     loads |-> 1, version |-> 0]

\* a forward pass that leaves a trace in the model (gradients applied)
AfterInference_Trained(ms) == [ms EXCEPT !.version = @ + 1]

\* the model state after model(**inputs) under torch.no_grad(): a read-only
\* forward pass
AfterInference(ms) == ms

\* class scores the model may return: one class ahead of the others, or
\* all classes level (a tie)
LogitVectors ==
    { [i \in 0..(NumClasses - 1) |-> IF i = k THEN 1 ELSE 0] :
        k \in 0..(NumClasses - 1) } \cup
    { [i \in 0..(NumClasses - 1) |-> 0] }

\* the value of `logits` before the model has returned
NoLogits == <<>>

\* logits.argmax(-1).item(): the first index holding the maximal score
ArgMax(l) ==
    CHOOSE i \in DOMAIN l :
        /\ \A j \in DOMAIN l : l[j] <= l[i]
        /\ \A j \in DOMAIN l : j < i => l[j] < l[i]

\* ------------------------------------------------------------ reply texts
PromptText == <<"Please send a photo or image file.">>
\* the except clause answering with the prompt of the else branch
ApologyText_Prompt == PromptText

ApologyText == <<"Sorry, I couldn't process that image.">>
\* f"Predicted class: {label}"
LabelText(label) == <<"Predicted class: ", label>>

\* --------------------------------------------------------------- updates
\* MIME types are token sequences so that startswith("image/") is computed
MimePng == <<"image", "/", "png">>
MimePdf == <<"application", "/", "pdf">>
MimeTypes == {MimePng, MimePdf}

StartsWith(s, prefix) ==
    /\ Len(s) >= Len(prefix)
    /\ SubSeq(s, 1, Len(prefix)) = prefix

ImagePrefix == <<"image", "/">>

\* message.photo: the size-ordered list of PhotoSize file ids (may be empty)
PhotoLists == { [i \in 1..n |-> <<"photo", i>>] : n \in 0..MaxPhotoSizes }

\* message.document: absent (None, the empty sequence here), or one document
\* with a file id and a MIME type
NoDocument == <<>>
Documents ==
    {NoDocument} \cup
    { <<[file_id |-> <<"doc", 1>>, mime_type |-> m]>> : m \in MimeTypes }

\* the value of `file` when no attachment was selected
NoFile == <<>>

\* the conversation an update belongs to
ChatOf(u) == IF u % 2 = 1 THEN "chatA" ELSE "chatB"

\* a message carries a photo, or a document, or neither (plain text); the
\* largest photo list is also paired with an image document so that a
\* message with both slots filled is covered
FullPhotoList == [i \in 1..MaxPhotoSizes |-> <<"photo", i>>]
Messages ==
    { [photo |-> p, document |-> NoDocument] : p \in PhotoLists } \cup
    { [photo |-> <<>>, document |-> d] : d \in Documents } \cup
    { [photo |-> FullPhotoList,
       document |-> <<[file_id |-> <<"doc", 1>>, mime_type |-> MimePng]>>] }
NoMessage == [photo |-> <<>>, document |-> NoDocument]

VARIABLES
    WEBHOOK_URL,     \* the module-level WEBHOOK_URL, computed at import
    mpc,             \* position of main()
    handlerAdded,    \* app.add_handler has run
    success,         \* the local `success` of main()
    webhookUrl,      \* platform side: the registered push target
    pendingUpdates,  \* platform side: the updates queued for delivery
    delivered,       \* platform side: how often each queued update was pushed
    inFlight,        \* pushes of queued updates accepted and not yet answered
    model_state,     \* the module-level feature_extractor and model
    apiCalls,        \* startup calls made so far, in order
    logged,          \* log records emitted
    upd,             \* the message of each update
    upc,             \* position of each update's dispatch cycle
    running,         \* the coroutine occupying the event loop, 0 when idle
    file,            \* local `file`: the file id resolved by get_file
    img_bytes,       \* local `img_bytes`: content downloaded
    logits,          \* local `logits`: the class scores the model returned
    stages,          \* pipeline stages each update has executed, in order
    outbox           \* the reply_text calls of each update, in call order

vars == <<WEBHOOK_URL, mpc, handlerAdded, success, webhookUrl, pendingUpdates,
          delivered, inFlight, model_state, apiCalls, logged, upd, upc, running,
          file, img_bytes, logits, stages, outbox>>

startupVars == <<WEBHOOK_URL, mpc, handlerAdded, success, webhookUrl,
                 pendingUpdates, apiCalls>>
updateVars == <<upd, upc, running, file, img_bytes, logits, stages, outbox>>
deliveryVars == <<delivered, inFlight>>

NoUrl == <<>>

Init ==
    /\ \E base \in BaseUrls : WEBHOOK_URL = WebhookUrlOf(base)
    /\ mpc = StartupOrder[1]
    /\ handlerAdded = FALSE
    /\ success = None
    /\ webhookUrl \in {NoUrl, StaleUrl, WEBHOOK_URL}
    /\ pendingUpdates \in SUBSET PendingIds
    /\ delivered = [id \in PendingIds |-> 0]
    /\ inFlight = {}
    /\ model_state = LoadedModel
    /\ apiCalls = <<>>
    /\ logged = {}
    /\ upd = [u \in Updates |-> NoMessage]
    /\ upc = [u \in Updates |-> "absent"]
    /\ running = 0
    /\ file = [u \in Updates |-> NoFile]
    /\ img_bytes = [u \in Updates |-> None]
    /\ logits = [u \in Updates |-> NoLogits]
    /\ stages = [u \in Updates |-> <<>>]
    /\ outbox = [u \in Updates |-> <<>>]

\* ------------------------------------------------------------- main()
\* app.add_handler(MessageHandler(filters.PHOTO | filters.Document.IMAGE, ...))
AddHandler ==
    /\ mpc = "add_handler"
    /\ handlerAdded' = TRUE
    /\ mpc' = StmtAfter("add_handler")
    /\ UNCHANGED <<WEBHOOK_URL, success, webhookUrl, pendingUpdates, apiCalls, logged>>
    /\ UNCHANGED updateVars
    /\ UNCHANGED <<deliveryVars, model_state>>

\* await app.bot.delete_webhook(drop_pending_updates=True); the result is
\* not inspected, an exception leaves main()
DeleteWebhook ==
    /\ mpc = "delete_webhook"
    /\ \E outcome \in {"ok", "error"} :
        /\ IF outcome = "ok"
           THEN /\ webhookUrl' = NoUrl
                /\ pendingUpdates' = IF DropPendingUpdates THEN {} ELSE pendingUpdates
                /\ mpc' = StmtAfter("delete_webhook")
           ELSE /\ UNCHANGED <<webhookUrl, pendingUpdates>>
                /\ mpc' = "crashed"
        /\ apiCalls' = Append(apiCalls,
              [call |-> "delete_webhook", drop |-> DropPendingUpdates,
               url |-> NoUrl, result |-> outcome,
               after |-> [url |-> webhookUrl', pending |-> pendingUpdates']])
    /\ UNCHANGED <<WEBHOOK_URL, handlerAdded, success, logged>>
    /\ UNCHANGED updateVars
    /\ UNCHANGED <<deliveryVars, model_state>>

\* success = await app.bot.set_webhook(WEBHOOK_URL)
SetWebhook ==
    /\ mpc = "set_webhook"
    /\ \E outcome \in {"ok", "false", "error"} :
        /\ IF outcome = "ok"
           THEN /\ webhookUrl' = WEBHOOK_URL
                /\ success' = "True"
                /\ mpc' = StmtAfter("set_webhook")
           ELSE IF outcome = "false"
           THEN /\ UNCHANGED webhookUrl
                /\ success' = "False"
                /\ mpc' = StmtAfter("set_webhook")
           ELSE /\ UNCHANGED <<webhookUrl, success>>
                /\ mpc' = "crashed"
        /\ apiCalls' = Append(apiCalls,
              [call |-> "set_webhook", drop |-> FALSE,
               url |-> WEBHOOK_URL, result |-> outcome,
               after |-> [url |-> webhookUrl', pending |-> pendingUpdates]])
    /\ UNCHANGED <<WEBHOOK_URL, handlerAdded, pendingUpdates, logged>>
    /\ UNCHANGED updateVars
    /\ UNCHANGED <<deliveryVars, model_state>>

\* if success: logging.info(...) else: logging.warning(...)
LogResult ==
    /\ mpc = "log_result"
    /\ logged' = logged \cup
          { IF success = "True"
            THEN [level |-> "info", msg |-> "Webhook set", upd |-> 0]
            ELSE [level |-> "warning", msg |-> "Failed to set webhook!", upd |-> 0] }
    /\ mpc' = StmtAfter("log_result")
    /\ UNCHANGED <<WEBHOOK_URL, handlerAdded, success, webhookUrl, pendingUpdates, apiCalls>>
    /\ UNCHANGED updateVars
    /\ UNCHANGED <<deliveryVars, model_state>>

\* await app.run_webhook(...): the server starts accepting pushes
RunWebhook ==
    /\ mpc = "run_webhook"
    /\ apiCalls' = Append(apiCalls,
          [call |-> "run_webhook", drop |-> FALSE, url |-> WEBHOOK_PATH,
           result |-> "ok",
           after |-> [url |-> webhookUrl, pending |-> pendingUpdates]])
    /\ mpc' = StmtAfter("run_webhook")
    /\ UNCHANGED <<WEBHOOK_URL, handlerAdded, success, webhookUrl, pendingUpdates, logged>>
    /\ UNCHANGED updateVars
    /\ UNCHANGED <<deliveryVars, model_state>>

\* ------------------------------------------------- the webhook server
\* the platform pushes update u; the server accepts it when the event loop
\* is free to run the request handler
Push(u) ==
    /\ mpc = "serving"
    /\ webhookUrl = WEBHOOK_URL
    /\ running = 0
    /\ upc[u] = "absent"
    /\ \E m \in Messages :
        upd' = [upd EXCEPT ![u] = m]
    /\ upc' = [upc EXCEPT ![u] = "queued"]
    /\ UNCHANGED <<running, file, img_bytes, logits, stages, outbox, logged>>
    /\ UNCHANGED startupVars
    /\ UNCHANGED <<deliveryVars, model_state>>

\* filters.PHOTO: the message has a non-empty photo list
FilterPhoto(m) == Len(m.photo) > 0

\* filters.Document.IMAGE: the message has a document whose MIME type
\* starts with "image/"
FilterDocumentImage(m) ==
    /\ m.document # NoDocument
    /\ StartsWith(m.document[1].mime_type, ImagePrefix)

\* MessageHandler(filters.PHOTO | filters.Document.IMAGE, handle_image)
HandlerFilter(m) == FilterPhoto(m) \/ FilterDocumentImage(m)

\* the selection with the first (smallest) photo size taken
SelectAttachment_First(m) ==
    IF Len(m.photo) > 0
    THEN m.photo[1]
    ELSE IF m.document # NoDocument
            /\ StartsWith(m.document[1].mime_type, ImagePrefix)
    THEN m.document[1].file_id
    ELSE NoFile

\* lines 32-38 of handle_image: the file id passed to get_file, or
\* NoFile when `file` stays None
SelectAttachment(m) ==
    IF Len(m.photo) > 0
    THEN m.photo[Len(m.photo)]
    ELSE IF m.document # NoDocument
            /\ StartsWith(m.document[1].mime_type, ImagePrefix)
    THEN m.document[1].file_id
    ELSE NoFile

\* a reply_text call of update u's coroutine: update.message.reply_text(text)
ReplyCall(u, text, line) ==
    [chat |-> ChatOf(u), text |-> text, line |-> line, status |-> "pending"]

\* logging.exception("Error processing image")
ExceptionLog(u) ==
    [level |-> "error", msg |-> "Error processing image", upd |-> u]

\* handle_image from its entry to its first await: get_file on the selected
\* attachment, or the prompt reply when there is none
HandleImageStart(u) ==
    IF SelectAttachment(upd[u]) # NoFile
    THEN /\ file' = [file EXCEPT ![u] = SelectAttachment(upd[u])]
         /\ stages' = [stages EXCEPT ![u] = Append(@, "get_file")]
         /\ upc' = [upc EXCEPT ![u] = "get_file"]
         /\ UNCHANGED outbox
    ELSE /\ outbox' = [outbox EXCEPT ![u] = Append(@, ReplyCall(u, PromptText, 60))]
         /\ upc' = [upc EXCEPT ![u] = "reply_60"]
         /\ UNCHANGED <<file, stages>>

\* the application takes update u off its queue: without a matching handler
\* the update is discarded, otherwise handle_image runs up to its first await
Dispatch(u) ==
    /\ upc[u] = "queued"
    /\ running = 0
    /\ IF ~(handlerAdded /\ HandlerFilter(upd[u]))
       THEN /\ upc' = [upc EXCEPT ![u] = "unhandled"]
            /\ UNCHANGED <<file, stages, outbox>>
       ELSE HandleImageStart(u)
    /\ UNCHANGED <<upd, running, img_bytes, logits, logged>>
    /\ UNCHANGED startupVars
    /\ UNCHANGED <<deliveryVars, model_state>>

\* await context.bot.get_file(...) completes; an exception is outside the
\* try block and leaves handle_image.  On success download_to_memory starts.
GetFileDone(u) ==
    /\ upc[u] = "get_file"
    /\ running = 0
    /\ \E outcome \in {"ok", "error"} :
        IF outcome = "ok"
        THEN /\ upc' = [upc EXCEPT ![u] = "download"]
             /\ stages' = [stages EXCEPT ![u] = Append(@, "download")]
        ELSE /\ upc' = [upc EXCEPT ![u] = "raised"]
             /\ UNCHANGED stages
    /\ UNCHANGED <<upd, running, file, img_bytes, logits, outbox, logged>>
    /\ UNCHANGED startupVars
    /\ UNCHANGED <<deliveryVars, model_state>>

\* await file.download_to_memory(out=img_bytes) completes; an exception is
\* outside the try block.  On success the coroutine continues on the event
\* loop with img_bytes.seek(0) and the try block.
DownloadDone(u) ==
    /\ upc[u] = "download"
    /\ running = 0
    /\ \E outcome \in {"valid", "corrupt", "error"} :
        IF outcome = "error"
        THEN /\ upc' = [upc EXCEPT ![u] = "raised"]
             /\ UNCHANGED <<running, img_bytes>>
        ELSE /\ upc' = [upc EXCEPT ![u] = "decode"]
             /\ img_bytes' = [img_bytes EXCEPT ![u] = outcome]
             /\ running' = u
    /\ UNCHANGED <<upd, file, logits, stages, outbox, logged>>
    /\ UNCHANGED startupVars
    /\ UNCHANGED <<deliveryVars, model_state>>

\* an except clause that runs the try block again
ExceptClause_Retry(u) ==
    /\ logged' = logged \cup {ExceptionLog(u)}
    /\ upc' = [upc EXCEPT ![u] = "decode"]
    /\ running' = u
    /\ UNCHANGED outbox

\* an except clause that logs and carries on with the next statement of
\* the try block
ExceptClause_Swallow(u) ==
    /\ logged' = logged \cup {ExceptionLog(u)}
    /\ upc' = [upc EXCEPT ![u] = "infer"]
    /\ running' = u
    /\ UNCHANGED outbox

\* an except clause that logs and returns without a reply
ExceptClause_Silent(u) ==
    /\ logged' = logged \cup {ExceptionLog(u)}
    /\ upc' = [upc EXCEPT ![u] = "returned"]
    /\ running' = 0
    /\ UNCHANGED outbox

\* the except clause of handle_image: log, then call reply_text with the
\* apology and suspend
ExceptClause(u) ==
    /\ logged' = logged \cup {ExceptionLog(u)}
    /\ outbox' = [outbox EXCEPT ![u] = Append(@, ReplyCall(u, ApologyText, 58))]
    /\ upc' = [upc EXCEPT ![u] = "reply_58"]
    /\ running' = 0

\* image = Image.open(img_bytes).convert("RGB")
DecodeImage(u) ==
    /\ upc[u] = "decode"
    /\ running = u
    /\ stages' = [stages EXCEPT ![u] = Append(@, "decode")]
    /\ IF img_bytes[u] = "corrupt"
       THEN ExceptClause(u)
       ELSE /\ upc' = [upc EXCEPT ![u] = "preprocess"]
            /\ UNCHANGED <<running, outbox, logged>>
    /\ UNCHANGED <<upd, file, img_bytes, logits>>
    /\ UNCHANGED startupVars
    /\ UNCHANGED <<deliveryVars, model_state>>

\* inputs = feature_extractor(images=image, return_tensors="pt")
Preprocess(u) ==
    /\ upc[u] = "preprocess"
    /\ running = u
    /\ stages' = [stages EXCEPT ![u] = Append(@, "preprocess")]
    /\ \E outcome \in {"ok", "error"} :
        IF outcome = "error"
        THEN ExceptClause(u)
        ELSE /\ upc' = [upc EXCEPT ![u] = "infer"]
             /\ UNCHANGED <<running, outbox, logged>>
    /\ UNCHANGED <<upd, file, img_bytes, logits>>
    /\ UNCHANGED startupVars
    /\ UNCHANGED <<deliveryVars, model_state>>

\* outputs = model(**inputs) is entered: a synchronous call made on the
\* event loop by the coroutine
InferenceStart(u) ==
    /\ upc[u] = "infer"
    /\ running = u
    /\ stages' = [stages EXCEPT ![u] = Append(@, "inference")]
    /\ upc' = [upc EXCEPT ![u] = "inferring"]
    /\ UNCHANGED <<upd, running, file, img_bytes, logits, outbox, logged>>
    /\ UNCHANGED startupVars
    /\ UNCHANGED <<deliveryVars, model_state>>

\* lines 51-55 once model(**inputs) has returned the scores l
LabelReply(u, l) ==
    LET pred_class == ArgMax(l)
    IN  IF pred_class \in DOMAIN model_state.id2label
        THEN /\ outbox' = [outbox EXCEPT ![u] =
                    Append(@, ReplyCall(u, LabelText(model_state.id2label[pred_class]), 55))]
             /\ upc' = [upc EXCEPT ![u] = "reply_55"]
             /\ running' = 0
             /\ UNCHANGED logged
        ELSE ExceptClause(u)

\* model(**inputs) returns or raises
InferenceReturn(u) ==
    /\ upc[u] = "inferring"
    /\ running = u
    /\ \E outcome \in LogitVectors \cup {NoLogits} :
        IF outcome # NoLogits
        THEN /\ logits' = [logits EXCEPT ![u] = outcome]
             /\ LabelReply(u, outcome)
        ELSE /\ UNCHANGED logits
             /\ ExceptClause(u)
    /\ model_state' = AfterInference(model_state)
    /\ UNCHANGED <<upd, file, img_bytes, stages>>
    /\ UNCHANGED startupVars
    /\ UNCHANGED deliveryVars

\* the status of the pending reply_text call in the sequence box becomes o
Settle(box, o) ==
    [i \in DOMAIN box |->
        IF box[i].status = "pending"
        THEN [box[i] EXCEPT !.status = o]
        ELSE box[i]]

\* an awaited reply_text call completes.  A failure of the label reply
\* (line 55) is caught by the except clause, which replies again; a failure
\* of the apology (line 58) or of the prompt (line 60) leaves handle_image.
ReplyTextDone(u) ==
    /\ upc[u] \in {"reply_55", "reply_58", "reply_60"}
    /\ running = 0
    /\ \E outcome \in {"ok", "error"} :
        IF outcome = "ok"
        THEN /\ outbox' = [outbox EXCEPT ![u] = Settle(@, "ok")]
             /\ upc' = [upc EXCEPT ![u] = "returned"]
             /\ UNCHANGED logged
        ELSE IF upc[u] = "reply_55"
        THEN /\ logged' = logged \cup {ExceptionLog(u)}
             /\ outbox' = [outbox EXCEPT ![u] =
                    Append(Settle(@, "error"), ReplyCall(u, ApologyText, 58))]
             /\ upc' = [upc EXCEPT ![u] = "reply_58"]
        ELSE /\ outbox' = [outbox EXCEPT ![u] = Settle(@, "error")]
             /\ upc' = [upc EXCEPT ![u] = "raised"]
             /\ UNCHANGED logged
    /\ UNCHANGED <<upd, running, file, img_bytes, logits, stages>>
    /\ UNCHANGED startupVars
    /\ UNCHANGED <<deliveryVars, model_state>>

Next ==
    \/ AddHandler
    \/ DeleteWebhook
    \/ SetWebhook
    \/ LogResult
    \/ RunWebhook
    \/ \E u \in Updates : Push(u)
    \/ \E u \in Updates : Dispatch(u)
    \/ \E u \in Updates : GetFileDone(u)
    \/ \E u \in Updates : DownloadDone(u)
    \/ \E u \in Updates : DecodeImage(u)
    \/ \E u \in Updates : Preprocess(u)
    \/ \E u \in Updates : InferenceStart(u)
    \/ \E u \in Updates : InferenceReturn(u)
    \/ \E u \in Updates : ReplyTextDone(u)

Spec == Init /\ [][Next]_vars

\* ------------------------------------------------------------ vocabulary
\* handle_image has ended for update u, by returning or by raising
Finished(u) == upc[u] \in {"returned", "raised"}

\* nothing further will happen for update u
Over(u) == upc[u] \in {"unhandled", "returned", "raised"}

\* update u waits at one of the points where the event loop may serve it
AwaitsLoop(u) ==
    upc[u] \in {"absent", "queued", "get_file", "download",
                "reply_55", "reply_58", "reply_60"}

\* a step the event loop takes on behalf of update u
LoopStep(u) ==
    \/ Push(u)
    \/ Dispatch(u)
    \/ GetFileDone(u)
    \/ DownloadDone(u)
    \/ ReplyTextDone(u)

HasStage(u, st) == \E i \in DOMAIN stages[u] : stages[u][i] = st

\* no photo, and a document whose MIME type does not start with "image/"
NonImageDocument(m) ==
    /\ m.photo = <<>>
    /\ m.document # NoDocument
    /\ ~StartsWith(m.document[1].mime_type, ImagePrefix)

\* the text update u is owed: its label once classified, the prompt when it
\* has no eligible attachment, the apology otherwise
OwedText(u) ==
    IF logits[u] # NoLogits THEN LabelText(id2label[ArgMax(logits[u])])
    ELSE IF SelectAttachment(upd[u]) = NoFile THEN PromptText
    ELSE ApologyText

CallsOf(name) == { i \in DOMAIN apiCalls : apiCalls[i].call = name }

\* ---------------------------------------------------------------- claims

\* C1: every update handed to handle_image has at least one reply_text call
\* made for it by the time its dispatch cycle ends, whatever stage failed,
\* a failed attachment download included.
C1_ReplyAttempted ==
    \A u \in Updates : Finished(u) => Len(outbox[u]) >= 1

\* C2: no update ever gets more than one reply_text call, also when a reply
\* send itself fails.
C2_AtMostOneReply ==
    \A u \in Updates : Len(outbox[u]) <= 1

\* C3: an update without photo whose document is not an image gets, from the
\* service as wired in main(), exactly one reply, the prompt, and no
\* download, decode or inference.
C3_NonImagePrompted ==
    \A u \in Updates :
        (Over(u) /\ NonImageDocument(upd[u])) =>
            /\ Len(outbox[u]) = 1
            /\ outbox[u][1].text = PromptText
            /\ stages[u] = <<>>

\* C4: once the decode of malformed bytes has failed, no inference runs, the
\* apology is the only reply, and handle_image does not raise, whatever the
\* outcome of sending the apology.
C4_MalformedHandled ==
    \A u \in Updates :
        (img_bytes[u] = "corrupt" /\ HasStage(u, "decode")) =>
            /\ ~HasStage(u, "inference")
            /\ Len(outbox[u]) = 1
            /\ outbox[u][1].text = ApologyText
            /\ upc[u] # "raised"

\* C5: when download, decode and inference all succeeded, the dispatch
\* cycle ends with exactly one reply, "Predicted class: " followed by the
\* label at the arg-max index of the scores.
C5_LabelReply ==
    \A u \in Updates :
        (Finished(u) /\ logits[u] # NoLogits) =>
            /\ Len(outbox[u]) = 1
            /\ outbox[u][1].text = LabelText(id2label[ArgMax(logits[u])])

\* C6: no error of a dispatch cycle (download, decode, inference, reply
\* delivery) propagates out of handle_image.
C6_NoPropagation ==
    \A u \in Updates : upc[u] # "raised"

\* C7: with several updates in the system, each update gets exactly one
\* reply, addressed to its own conversation and carrying the label or
\* fallback computed for it.
C7_OneReplyEach ==
    \A u, v \in Updates :
        (u # v /\ upc[v] # "absent") =>
            /\ \A i \in DOMAIN outbox[u] :
                 /\ outbox[u][i].chat = ChatOf(u)
                 /\ outbox[u][i].text = OwedText(u)
            /\ Len(outbox[u]) <= 1
            /\ Finished(u) => Len(outbox[u]) = 1

\* C8: while the inference call of one update is in progress, the event
\* loop can still take a step for any other update that is waiting for it
\* (accept its push, complete its download, complete its reply).
C8_NotStalled ==
    \A a, b \in Updates :
        (a # b /\ upc[a] = "inferring" /\ AwaitsLoop(b)
               /\ webhookUrl = WEBHOOK_URL) =>
            ENABLED LoopStep(b)

\* C9: when the registration step fails (set_webhook reports failure, or
\* delete_webhook / set_webhook raises), startup goes on: main() does not
\* stop, and a warning is logged before the server is run.
C9_RegistrationNonFatal ==
    (\E i \in CallsOf("delete_webhook") \cup CallsOf("set_webhook") :
        apiCalls[i].result # "ok") =>
            /\ mpc # "crashed"
            /\ mpc \in {"run_webhook", "serving"} =>
                 \E r \in logged : r.level = "warning"

\* C10: in every startup delete_webhook(drop_pending_updates=True) completes
\* before set_webhook(WEBHOOK_URL) is called, and both before the server
\* accepts pushes; every startup that gets past the first call has dropped
\* the pending updates.
C10_StartupOrder ==
    /\ \A i \in CallsOf("delete_webhook") : apiCalls[i].drop = TRUE
    /\ \A i \in CallsOf("set_webhook") :
         /\ apiCalls[i].url = WEBHOOK_URL
         /\ \E j \in CallsOf("delete_webhook") :
              j < i /\ apiCalls[j].result = "ok"
    /\ \A i \in CallsOf("run_webhook") :
         /\ \E j \in CallsOf("delete_webhook") : j < i
         /\ \E j \in CallsOf("set_webhook") : j < i
    /\ mpc \notin {"add_handler", "delete_webhook"} =>
         CallsOf("delete_webhook") # {}
    /\ mpc \in {"set_webhook"} => (webhookUrl = NoUrl /\ pendingUpdates = {})
    /\ (mpc = "serving" \/ \E u \in Updates : upc[u] # "absent") =>
         CallsOf("run_webhook") # {}

\* a startup that replaced the webhook, started the server and has accepted
\* a push
C10_Witness ==
    /\ mpc = "serving"
    /\ Len(apiCalls) = 3
    /\ webhookUrl = WEBHOOK_URL
    /\ \E u \in Updates : upc[u] = "queued"

\* ------------------------------------------- the registrar, run repeatedly
\* the process is started again (a redeploy): main() runs from its first
\* statement; pushes the old process had accepted and not answered stay in
\* the platform's queue
Redeploy ==
    /\ mpc \in {"serving", "crashed"}
    /\ Cardinality(CallsOf("delete_webhook")) < MaxStartups
    /\ mpc' = StartupOrder[1]
    /\ handlerAdded' = FALSE
    /\ success' = None
    /\ inFlight' = {}
    /\ UNCHANGED <<WEBHOOK_URL, webhookUrl, pendingUpdates, delivered,
                   model_state, apiCalls, logged>>
    /\ UNCHANGED updateVars

\* a user sends a message: the platform queues a new update
PlatformEnqueue(id) ==
    /\ id \notin pendingUpdates
    /\ delivered[id] = 0
    /\ pendingUpdates' = pendingUpdates \cup {id}
    /\ UNCHANGED <<WEBHOOK_URL, mpc, handlerAdded, success, webhookUrl,
                   delivered, inFlight, model_state, apiCalls, logged>>
    /\ UNCHANGED updateVars

\* the platform pushes a queued update to the registered URL and the
\* webhook server accepts it
PlatformDeliver(id) ==
    /\ mpc = "serving"
    /\ webhookUrl = WEBHOOK_URL
    /\ id \in pendingUpdates \ inFlight
    /\ delivered' = [delivered EXCEPT ![id] = @ + 1]
    /\ inFlight' = inFlight \cup {id}
    /\ UNCHANGED <<WEBHOOK_URL, mpc, handlerAdded, success, webhookUrl,
                   pendingUpdates, model_state, apiCalls, logged>>
    /\ UNCHANGED updateVars

\* the webhook server answers the push; the platform takes the update off
\* its queue
PlatformAck(id) ==
    /\ mpc = "serving"
    /\ id \in inFlight
    /\ inFlight' = inFlight \ {id}
    /\ pendingUpdates' = pendingUpdates \ {id}
    /\ UNCHANGED <<WEBHOOK_URL, mpc, handlerAdded, success, webhookUrl,
                   delivered, model_state, apiCalls, logged>>
    /\ UNCHANGED updateVars

RegistrarNext ==
    \/ AddHandler
    \/ DeleteWebhook
    \/ SetWebhook
    \/ LogResult
    \/ RunWebhook
    \/ Redeploy
    \/ \E id \in PendingIds : PlatformEnqueue(id)
    \/ \E id \in PendingIds : PlatformDeliver(id)
    \/ \E id \in PendingIds : PlatformAck(id)

RegistrarSpec == Init /\ [][RegistrarNext]_vars

OkCalls(name) == { i \in CallsOf(name) : apiCalls[i].result = "ok" }

\* C11: the registrar is idempotent: whatever was registered and queued
\* before, every run whose calls take effect leaves the same registration
\* and the same (emptied) queue as the run before it, and no queued update is
\* pushed to the bot twice across the runs.
C11_Idempotent ==
    /\ \A i, j \in OkCalls("delete_webhook") :
         apiCalls[i].after = apiCalls[j].after
    /\ \A i, j \in OkCalls("set_webhook") :
         apiCalls[i].after.url = apiCalls[j].after.url
    /\ \A id \in PendingIds : delivered[id] <= 1

\* the registrar has run twice with effect and an update queued at the
\* platform has been pushed to the bot
C11_Witness ==
    /\ Cardinality(OkCalls("delete_webhook")) = 2
    /\ Cardinality(OkCalls("set_webhook")) = 2
    /\ mpc = "serving"
    /\ \E id \in PendingIds : delivered[id] = 1

\* ------------------------------------------------------------- scheduling
\* what asyncio and the awaited calls guarantee: main() goes on, a ready
\* coroutine is resumed, an awaited platform call completes or fails and
\* synchronous code runs on.  Nothing obliges the platform to push an update,
\* nor model(**inputs) to return.
FairSpec ==
    /\ Spec
    /\ WF_vars(AddHandler)
    /\ WF_vars(DeleteWebhook)
    /\ WF_vars(SetWebhook)
    /\ WF_vars(LogResult)
    /\ WF_vars(RunWebhook)
    /\ \A u \in Updates :
         /\ WF_vars(Dispatch(u))
         /\ WF_vars(GetFileDone(u))
         /\ WF_vars(DownloadDone(u))
         /\ WF_vars(DecodeImage(u))
         /\ WF_vars(Preprocess(u))
         /\ WF_vars(InferenceStart(u))
         /\ WF_vars(ReplyTextDone(u))

\* C12: a dispatch cycle that has entered the inference call always comes to
\* an end, also when the call never returns (a timeout turns it into the
\* InferenceFailed outcome).
C12_InferenceBounded ==
    \A u \in Updates : (upc[u] = "inferring") ~> Over(u)

\* C13: the model and its preprocessing transform are loaded once, before
\* the server accepts pushes, and the model state (checkpoint, label table,
\* weights) is the same in every reachable state: no dispatch cycle loads,
\* reassigns or changes it.
C13_ModelImmutable ==
    /\ model_state = LoadedModel
    /\ model_state.loads = 1
    /\ model_state.id2label = id2label

\* two updates have been through the model, one after the other
C13_Witness ==
    /\ mpc = "serving"
    /\ \A u \in Updates : logits[u] # NoLogits /\ upc[u] = "returned"

\* ------------------------------------------ handle_image on any update
\* handle_image is called with update u, whatever its message (the handler
\* without the registration filter in front of it)
Invoke(u) ==
    /\ upc[u] = "queued"
    /\ running = 0
    /\ HandleImageStart(u)
    /\ UNCHANGED <<upd, running, img_bytes, logits, logged>>
    /\ UNCHANGED startupVars
    /\ UNCHANGED <<deliveryVars, model_state>>

HandlerNext ==
    \/ AddHandler
    \/ DeleteWebhook
    \/ SetWebhook
    \/ LogResult
    \/ RunWebhook
    \/ \E u \in Updates : Push(u)
    \/ \E u \in Updates : Invoke(u)
    \/ \E u \in Updates : GetFileDone(u)
    \/ \E u \in Updates : DownloadDone(u)
    \/ \E u \in Updates : DecodeImage(u)
    \/ \E u \in Updates : Preprocess(u)
    \/ \E u \in Updates : InferenceStart(u)
    \/ \E u \in Updates : InferenceReturn(u)
    \/ \E u \in Updates : ReplyTextDone(u)

HandlerSpec == Init /\ [][HandlerNext]_vars

\* handle_image has been entered for update u
Entered(u) == upc[u] \notin {"absent", "queued", "unhandled"}

Count(seq, x) == Cardinality({ i \in DOMAIN seq : seq[i] = x })

HasImageDocument(m) ==
    /\ m.document # NoDocument
    /\ StartsWith(m.document[1].mime_type, ImagePrefix)

C15_NoPromptWhenEligible ==
    \A u \in Updates :
        (Len(upd[u].photo) > 0 \/ HasImageDocument(upd[u])) =>
            \A i \in DOMAIN outbox[u] : outbox[u][i].text # PromptText

\* the download of an eligible attachment failed, and another eligible
\* update went through a failed decode and a failed apology
C15_Witness ==
    /\ \E u \in Updates :
         /\ HasImageDocument(upd[u])
         /\ upc[u] = "raised"
         /\ stages[u] = <<"get_file", "download">>
         /\ outbox[u] = <<>>
    /\ \E v \in Updates :
         /\ Len(upd[v].photo) > 0
         /\ img_bytes[v] = "corrupt"
         /\ upc[v] = "raised"

PipelineOrder == <<"get_file", "download", "decode", "preprocess", "inference">>
StageNames == { PipelineOrder[i] : i \in DOMAIN PipelineOrder }

\* C16: no retries: within one dispatch cycle every pipeline stage runs at
\* most once, whatever the outcomes, a failed reply send included.
C16_NoRetry ==
    \A u \in Updates : \A st \in StageNames : Count(stages[u], st) <= 1

\* the label reply and then the apology both failed after a full pipeline
C16_Witness ==
    \E u \in Updates :
        /\ upc[u] = "raised"
        /\ Len(outbox[u]) = 2
        /\ outbox[u][1].status = "error"
        /\ outbox[u][2].status = "error"
        /\ Len(stages[u]) = Len(PipelineOrder)

\* C17: the stages of a dispatch cycle occur in pipeline order; decode only
\* after a completed download, inference only after a successful decode, a
\* label reply only after a successful inference of the same update, and no
\* reply before the update was received.
C17_StageOrder ==
    \A u \in Updates :
        /\ Len(stages[u]) <= Len(PipelineOrder)
        /\ stages[u] = SubSeq(PipelineOrder, 1, Len(stages[u]))
        /\ HasStage(u, "decode") => img_bytes[u] \in {"valid", "corrupt"}
        /\ HasStage(u, "inference") => img_bytes[u] = "valid"
        /\ \A i \in DOMAIN outbox[u] :
             outbox[u][i].text \notin {PromptText, ApologyText} =>
                 /\ HasStage(u, "inference")
                 /\ logits[u] # NoLogits
                 /\ upc[u] # "inferring"
        /\ outbox[u] # <<>> => Entered(u)

\* an update went through the whole pipeline and its label reply was sent
C17_Witness ==
    \E u \in Updates :
        /\ upc[u] = "returned"
        /\ stages[u] = PipelineOrder
        /\ logits[u] # NoLogits
        /\ Len(outbox[u]) = 1
        /\ outbox[u][1].text = LabelText(id2label[ArgMax(logits[u])])
        /\ outbox[u][1].status = "ok"

\* something raised inside the try block of update u
RaisedInTry(u) ==
    \/ HasStage(u, "decode") /\ img_bytes[u] = "corrupt"
    \/ HasStage(u, "preprocess") /\ ~HasStage(u, "inference") /\ upc[u] # "infer"
    \/ HasStage(u, "inference") /\ logits[u] = NoLogits /\ upc[u] # "inferring"
    \/ \E i \in DOMAIN outbox[u] :
         outbox[u][i].line = 55 /\ outbox[u][i].status = "error"

ApologyAttempted(u) ==
    \E i \in DOMAIN outbox[u] : outbox[u][i].text = ApologyText

\* C18: the apology is attempted exactly when something raised inside the
\* try block (decode, preprocessing, inference, label lookup, send of the
\* label reply); after a label reply that was sent without error no further
\* reply is attempted; the apology is never attempted on the NoAttachment
\* path.
C18_ApologyIffRaised ==
    \A u \in Updates :
        /\ ApologyAttempted(u) <=> RaisedInTry(u)
        /\ (\E i \in DOMAIN outbox[u] :
               outbox[u][i].line = 55 /\ outbox[u][i].status = "ok") =>
             Len(outbox[u]) = 1
        /\ (Entered(u) /\ Len(upd[u].photo) = 0 /\ ~HasImageDocument(upd[u])) =>
             ~ApologyAttempted(u)

\* one update's label send failed and its apology followed, another was
\* answered with the prompt, which failed to send
C18_Witness ==
    /\ \E u \in Updates :
         /\ Len(outbox[u]) = 2
         /\ outbox[u][1].line = 55
         /\ outbox[u][1].status = "error"
         /\ outbox[u][2].text = ApologyText
    /\ \E v \in Updates :
         /\ upd[v] = NoMessage
         /\ upc[v] = "raised"
         /\ Len(outbox[v]) = 1
====
